---- MODULE Spec2Model ----
(***************************************************************************)
(* Verification model of halo2aggregator-s, src/solidity_verifier:         *)
(*   sha256.rs  the null transcript SolidityShaRead and the selector       *)
(*              SolidityShaSelector over {ShaRead, SolidityShaRead};       *)
(*   mod.rs     solidity_render, the export pass that fills a tera context *)
(*              and renders the contract template.                        *)
(* Two specifications share the module: SpecTranscript drives the          *)
(* transcripts, Spec drives one export pass statement by statement.        *)
(***************************************************************************)
EXTENDS Integers, Sequences, FiniteSets, TLC

(***************************************************************************)
(* Bounds of the model.                                                    *)
(***************************************************************************)
\* Order of the (scaled-down) scalar field C::Scalar.
ScalarModulus == 17
\* Proof bytes range over 0..MaxByte.
MaxByte == 1
\* Longest proof byte sequence handed to a transcript.
MaxProofLen == 3
\* Transcript calls made in one run.
MaxCalls == 3
\* Bytes of one encoded point or scalar in the proof stream (scaled down).
ReprLen == 1
\* Size of the (scaled-down) digest space of the transcript hash D.
HashModulus == 5
\* Order of the (scaled-down) base field of the curves.
FqModulus == 65521
\* Size of the (scaled-down) digest space of the seed hash (blake2b).
Blake2bModulus == 251
\* Largest counts a verifying key of the model reports.
MaxLookups == 3
MaxPermColumns == 3
MaxDegree == 5
MaxInstanceQueries == 1
MaxAdviceQueries == 5
MaxFixedQueries == 2
MaxPermCommitments == 2

(***************************************************************************)
(* Byte and integer helpers of the libraries the code calls.               *)
(***************************************************************************)
\* Vec::resize(n, v): truncate to n elements or pad with v up to n.
Resize(bytes, n, v) ==
    [i \in 1..n |-> IF i <= Len(bytes) THEN bytes[i] ELSE v]

\* The bytes of a little-endian number without its trailing zero bytes (the
\* normal form big-integer libraries keep).
Significant(bytes) ==
    LET nz == {i \in 1..Len(bytes) : bytes[i] # 0}
    IN  IF nz = {} THEN <<>>
        ELSE SubSeq(bytes, 1, CHOOSE i \in nz : \A j \in nz : j <= i)

\* Horner evaluation of little-endian digits modulo m, from the most
\* significant byte, so that no intermediate exceeds 256 * m.
RECURSIVE HornerLEMod(_, _)
HornerLEMod(bytes, m) ==
    IF bytes = <<>> THEN 0
    ELSE (Head(bytes) + 256 * HornerLEMod(Tail(bytes), m)) % m

\* The little-endian value of a byte string reduced modulo m.
FromBytesLEMod(bytes, m) == HornerLEMod(Significant(bytes), m)

\* The n-byte little-endian encoding of v.  The model's integers are below
\* 2^31, so every byte past the fourth is zero.
ToBytesLE(v, n) ==
    [i \in 1..n |-> IF i <= 4 THEN (v \div (256 ^ (i - 1))) % 256 ELSE 0]

\* All byte strings over 0..MaxByte of length at most n.
RECURSIVE ByteSeqs(_)
ByteSeqs(n) ==
    IF n = 0 THEN {<<>>}
    ELSE LET shorter == ByteSeqs(n - 1)
         IN shorter \cup {Append(s, b) : s \in {t \in shorter : Len(t) = n - 1},
                                         b \in 0..MaxByte}

(***************************************************************************)
(* Values of the transcript contract.                                      *)
(***************************************************************************)
\* vec![] resized to 64 bytes: the input width of Challenge255::new.
ChallengeInputLen == 64
\* Width of a scalar's canonical representation, which a Challenge255 stores.
ScalarReprLen == 32

\* C::identity(): the point at infinity of the curve.
C_identity == [inf |-> TRUE, x |-> 0, y |-> 0]
\* Affine sample points of the curve (coordinates are what the model needs).
G1Samples == { [inf |-> FALSE, x |-> 1, y |-> 2], [inf |-> FALSE, x |-> 3, y |-> 5] }
G1Points == G1Samples \cup {C_identity}

\* C::Scalar::root_of_unity(): a generator of the 2^S-subgroup (3 has order 16
\* modulo 17).
Scalar_root_of_unity == 3
ScalarSamples == {0, 1, ScalarModulus - 1}

PointVal(p) == [point |-> p]
ScalarVal(s) == [scalar |-> s]
UnitVal == [unit |-> TRUE]
\* io::Result: Ok(v) or Err(e).
Ok(v) == [ok |-> TRUE, val |-> v]
Err(e) == [ok |-> FALSE, val |-> [err |-> e]]

\* Scalar::from_bytes_wide: the 64-byte little-endian integer reduced modulo
\* the field order.
from_bytes_wide(bytes) == FromBytesLEMod(bytes, ScalarModulus)

\* Challenge255::new: reduce the 64 input bytes to a scalar and keep its
\* 32-byte representation.
Challenge255_new(bytes) ==
    [challenge |-> ToBytesLE(from_bytes_wide(bytes), ScalarReprLen)]

(***************************************************************************)
(* SolidityShaRead: the null transcript.  Its only field is PhantomData.   *)
(***************************************************************************)
SolidityShaRead_init == [phantom |-> "PhantomData"]

SolidityShaRead_read_point(self) ==
    [self |-> self, ret |-> Ok(PointVal(C_identity))]

\* Mutation: the placeholder scalar is zero instead of the root of unity.
SolidityShaRead_read_scalar_zero(self) ==
    [self |-> self, ret |-> Ok(ScalarVal(0))]

SolidityShaRead_read_scalar(self) ==
    [self |-> self, ret |-> Ok(ScalarVal(Scalar_root_of_unity))]

\* squeeze_challenge returns the challenge itself (no io::Result); the model
\* wraps it in Ok so that every call has a result of one shape.
SolidityShaRead_squeeze_challenge(self) ==
    LET bytes == Resize(<<>>, ChallengeInputLen, 0)
    IN  [self |-> self, ret |-> Ok(Challenge255_new(bytes))]

SolidityShaRead_common_point(self, point) ==
    [self |-> self, ret |-> Ok(UnitVal)]

SolidityShaRead_common_scalar(self, scalar) ==
    [self |-> self, ret |-> Ok(UnitVal)]

(***************************************************************************)
(* ShaRead: the real transcript (crate::transcript::sha256), a cursor over *)
(* the proof bytes plus a running hash state.                              *)
(***************************************************************************)
\* Digest::new(): the empty hash state.
D_new == 0

\* Digest::update: absorb bytes into the running state.
RECURSIVE D_update(_, _)
D_update(state, bytes) ==
    IF bytes = <<>> THEN state
    ELSE D_update((3 * state + Head(bytes) + 1) % HashModulus, Tail(bytes))

\* Digest::finalize: the digest of everything absorbed.
D_finalize(state) == ToBytesLE(state, ScalarReprLen)

G1Decoding == << [inf |-> FALSE, x |-> 1, y |-> 2], [inf |-> FALSE, x |-> 3, y |-> 5] >>
\* C::from_bytes / Scalar::from_repr of the bytes read from the proof.
DecodePoint(bytes) == G1Decoding[FromBytesLEMod(bytes, Len(G1Decoding)) + 1]
DecodeScalar(bytes) == FromBytesLEMod(bytes, ScalarModulus)
EncodePoint(p) == <<p.x % 256, p.y % 256>>
EncodeScalar(s) == <<s % 256>>

ShaRead_init(reader) == [state |-> D_new, reader |-> reader]

ShaRead_common_point(self, point) ==
    [self |-> [self EXCEPT !.state = D_update(self.state, EncodePoint(point))],
     ret |-> Ok(UnitVal)]

ShaRead_common_scalar(self, scalar) ==
    [self |-> [self EXCEPT !.state = D_update(self.state, EncodeScalar(scalar))],
     ret |-> Ok(UnitVal)]

\* Fails when the proof byte stream is exhausted before the requested read.
ShaRead_read_point(self) ==
    IF Len(self.reader) < ReprLen
    THEN [self |-> self, ret |-> Err("UnexpectedEof")]
    ELSE LET point == DecodePoint(SubSeq(self.reader, 1, ReprLen))
             rest == SubSeq(self.reader, ReprLen + 1, Len(self.reader))
         IN  [self |-> ShaRead_common_point([self EXCEPT !.reader = rest], point).self,
              ret |-> Ok(PointVal(point))]

ShaRead_read_scalar(self) ==
    IF Len(self.reader) < ReprLen
    THEN [self |-> self, ret |-> Err("UnexpectedEof")]
    ELSE LET scalar == DecodeScalar(SubSeq(self.reader, 1, ReprLen))
             rest == SubSeq(self.reader, ReprLen + 1, Len(self.reader))
         IN  [self |-> ShaRead_common_scalar([self EXCEPT !.reader = rest], scalar).self,
              ret |-> Ok(ScalarVal(scalar))]

\* The challenge is derived from the running state, which is then reseeded
\* with the digest.
ShaRead_squeeze_challenge(self) ==
    LET result == D_finalize(self.state)
    IN  [self |-> [self EXCEPT !.state = D_update(D_new, result)],
         ret |-> Ok(Challenge255_new(Resize(result, ChallengeInputLen, 0)))]

(***************************************************************************)
(* SolidityShaSelector: enum { ShaRead(..), SolidityShaRead(..) }.  Each   *)
(* method matches on the variant and calls the same method of its payload. *)
(***************************************************************************)
Selector_ShaRead(hasher) == [tag |-> "ShaRead", hasher |-> hasher]
Selector_SolidityShaRead(hasher) == [tag |-> "SolidityShaRead", hasher |-> hasher]

\* The selector after a call on its payload: the variant stays, the payload
\* is what the call left.
Forward(self, r) == [self |-> [self EXCEPT !.hasher = r.self], ret |-> r.ret]

\* Mutation: a failed read in real mode falls back to the null variant.
SolidityShaSelector_read_point_fallback(self) ==
    IF self.tag = "ShaRead"
    THEN LET r == ShaRead_read_point(self.hasher)
         IN  IF r.ret.ok THEN Forward(self, r)
             ELSE [self |-> Selector_SolidityShaRead(SolidityShaRead_init), ret |-> r.ret]
    ELSE Forward(self, SolidityShaRead_read_point(self.hasher))

SolidityShaSelector_read_point(self) ==
    IF self.tag = "ShaRead"
    THEN Forward(self, ShaRead_read_point(self.hasher))
    ELSE Forward(self, SolidityShaRead_read_point(self.hasher))

\* Mutation: the ShaRead arm calls the null transcript (a copy-paste slip).
SolidityShaSelector_read_scalar_null_arm(self) ==
    IF self.tag = "ShaRead"
    THEN [self |-> self, ret |-> SolidityShaRead_read_scalar(SolidityShaRead_init).ret]
    ELSE Forward(self, SolidityShaRead_read_scalar(self.hasher))

SolidityShaSelector_read_scalar(self) ==
    IF self.tag = "ShaRead"
    THEN Forward(self, ShaRead_read_scalar(self.hasher))
    ELSE Forward(self, SolidityShaRead_read_scalar(self.hasher))

SolidityShaSelector_squeeze_challenge(self) ==
    IF self.tag = "ShaRead"
    THEN Forward(self, ShaRead_squeeze_challenge(self.hasher))
    ELSE Forward(self, SolidityShaRead_squeeze_challenge(self.hasher))

SolidityShaSelector_common_point(self, point) ==
    IF self.tag = "ShaRead"
    THEN Forward(self, ShaRead_common_point(self.hasher, point))
    ELSE Forward(self, SolidityShaRead_common_point(self.hasher, point))

SolidityShaSelector_common_scalar(self, scalar) ==
    IF self.tag = "ShaRead"
    THEN Forward(self, ShaRead_common_scalar(self.hasher, scalar))
    ELSE Forward(self, SolidityShaRead_common_scalar(self.hasher, scalar))

(***************************************************************************)
(* solidity_render: the values it computes.                                *)
(***************************************************************************)
\* BigUint::from_bytes_le: the exact little-endian value.
RECURSIVE HornerLE(_)
HornerLE(bytes) ==
    IF bytes = <<>> THEN 0 ELSE Head(bytes) + 256 * HornerLE(Tail(bytes))

FromBytesLE(bytes) == HornerLE(Significant(bytes))

\* BigUint::to_str_radix(10) and the Display of an unsigned integer.
DecimalDigit == <<"0", "1", "2", "3", "4", "5", "6", "7", "8", "9">>
RECURSIVE to_str_radix10(_)
to_str_radix10(n) ==
    IF n < 10 THEN DecimalDigit[n + 1]
    ELSE to_str_radix10(n \div 10) \o DecimalDigit[(n % 10) + 1]

\* Width of one base-field element in the serialization of an Fq2 element,
\* and of the whole serialization.
HalfLen == 32
FullLen == 64

\* halo2ecc_s::utils::field_to_bn: the integer of the field element's
\* little-endian representation.
field_to_bn(f) == FromBytesLE(ToBytesLE(f, HalfLen))

\* BaseExt::write of an Fq2 element: c0 then c1, each little-endian.
Fq2_write(f) == ToBytesLE(f.c0, HalfLen) \o ToBytesLE(f.c1, HalfLen)

\* Negation of a G2 point: the Y coordinate is negated in Fq2.
Fq2_neg(f) == [c0 |-> (FqModulus - f.c0) % FqModulus, c1 |-> (FqModulus - f.c1) % FqModulus]
G2_neg(p) == IF p.inf THEN p ELSE [p EXCEPT !.y = Fq2_neg(p.y)]

\* tera::Context::insert: the key is added or overwritten.
Insert(tera_ctx, key, value) == (key :> value) @@ tera_ctx

\* Mutation: the halves are taken in serialization order.
g2field_to_bn_unswapped(f) ==
    LET bytes == Fq2_write(f)
    IN  << FromBytesLE(SubSeq(bytes, 1, HalfLen)),
           FromBytesLE(SubSeq(bytes, HalfLen + 1, FullLen)) >>

\* The closure g2field_to_bn: (bytes[32..64], bytes[..32]) as integers.
g2field_to_bn(f) ==
    LET bytes == Fq2_write(f)
    IN  << FromBytesLE(SubSeq(bytes, HalfLen + 1, FullLen)),
           FromBytesLE(SubSeq(bytes, 1, HalfLen)) >>

\* The closure insert_g2, for a point whose coordinates exist.
insert_g2(tera_ctx, prefix, g2) ==
    LET x == g2field_to_bn(g2.x)
        y == g2field_to_bn(g2.y)
        c1 == Insert(tera_ctx, prefix \o "_" \o "x0", to_str_radix10(x[1]))
        c2 == Insert(c1, prefix \o "_" \o "x1", to_str_radix10(x[2]))
        c3 == Insert(c2, prefix \o "_" \o "y0", to_str_radix10(y[1]))
    IN  Insert(c3, prefix \o "_" \o "y1", to_str_radix10(y[2]))

\* The four insert_g2 calls, in order: the prefix and the point of each.
G2Calls(target_circuit_params, verify_circuit_params) ==
    << [prefix |-> "target_circuit_s_g2", g2 |-> target_circuit_params.s_g2],
       [prefix |-> "target_circuit_n_g2", g2 |-> G2_neg(target_circuit_params.g2)],
       [prefix |-> "verify_circuit_s_g2", g2 |-> verify_circuit_params.s_g2],
       [prefix |-> "verify_circuit_n_g2", g2 |-> G2_neg(verify_circuit_params.g2)] >>

\* g_lagrange mapped to [x, y] decimal pairs (every point has coordinates).
g_lagrange_pairs(g_lagrange) ==
    [i \in 1..Len(g_lagrange) |->
        << to_str_radix10(field_to_bn(g_lagrange[i].x)),
           to_str_radix10(field_to_bn(g_lagrange[i].y)) >>]

\* blake2b_simd: Params::new().hash_length(64).personal(..).to_state(),
\* update and finalize.  The state is the personalised chaining value.
Blake2b_to_state == 1

RECURSIVE Blake2b_update(_, _)
Blake2b_update(hasher, bytes) ==
    IF bytes = <<>> THEN hasher
    ELSE Blake2b_update((7 * hasher + Head(bytes) + 1) % Blake2bModulus, Tail(bytes))

Blake2b_finalize(hasher) == ToBytesLE(hasher, FullLen)

\* Width of (s.len() as u64).to_le_bytes().
U64Len == 8

\* Mutation: the proof bytes are absorbed into the seed hash as well.
init_scalar_with_proof(a) ==
    LET s == a.vkey.pinned
        h1 == Blake2b_update(Blake2b_to_state, ToBytesLE(Len(s), U64Len))
        h2 == Blake2b_update(Blake2b_update(h1, s), a.proofs)
    IN  to_str_radix10(field_to_bn(from_bytes_wide(Blake2b_finalize(h2))))

\* The seed scalar as a decimal string: the hash of the 8-byte length of the
\* pinned description and of its bytes, reduced to a scalar.  a: the arguments
\* of solidity_render.
init_scalar(a) ==
    LET s == a.vkey.pinned
        h1 == Blake2b_update(Blake2b_to_state, ToBytesLE(Len(s), U64Len))
        h2 == Blake2b_update(h1, s)
    IN  to_str_radix10(field_to_bn(from_bytes_wide(Blake2b_finalize(h2))))

\* Mutation: the seed is inserted under a misspelt key.
insert_init_scalar_misspelt(tera_ctx, a) ==
    Insert(tera_ctx, "init_scaler", init_scalar(a))

\* a: the arguments of solidity_render.
insert_init_scalar(tera_ctx, a) ==
    Insert(tera_ctx, "init_scalar", init_scalar(a))

\* usize subtraction.  A negative result v stands for the wrapped value
\* 2^64 + v of a build without overflow checks; a build with overflow checks
\* panics instead.
usize_sub(a, b) == a - b

\* Mutation: the chunk size is degree - 1.
chunk_size_off_by_one(vkey) == usize_sub(vkey.cs.degree, 1)

\* The argument of chunks(): vkey.cs.degree() - 2.
chunk_size(vkey) == usize_sub(vkey.cs.degree, 2)

\* slice.chunks(size).len() for size # 0: 0 for an empty slice, else
\* ceil(n / size).  A wrapped size exceeds every slice length.
chunks_len(n, size) ==
    IF n = 0 THEN 0
    ELSE IF size < 0 THEN 1
    ELSE (n \div size) + (IF n % size # 0 THEN 1 ELSE 0)

\* Mutation: the shared permutation-product evaluation is counted twice.
evals_without_minus_one(vkey, n_permutation_product, lookups) ==
    LET a == vkey.cs.instance_queries + vkey.cs.advice_queries
               + vkey.cs.fixed_queries + 1 + vkey.permutation.commitments
               + 3 * n_permutation_product
    IN  [underflow |-> FALSE, val |-> a + 5 * lookups]

\* Mutation: the shared evaluation is subtracted before anything is added.
evals_minus_first(vkey, n_permutation_product, lookups) ==
    LET a == usize_sub(vkey.cs.instance_queries, 1)
        b == a + vkey.cs.advice_queries + vkey.cs.fixed_queries + 1
               + vkey.permutation.commitments + 3 * n_permutation_product
    IN  [underflow |-> a < 0, val |-> b + 5 * lookups]

\* The evals expression, evaluated left to right as Rust does.
evals(vkey, n_permutation_product, lookups) ==
    LET a == vkey.cs.instance_queries + vkey.cs.advice_queries
               + vkey.cs.fixed_queries + 1 + vkey.permutation.commitments
               + 3 * n_permutation_product
        b == usize_sub(a, 1)
    IN  [underflow |-> b < 0, val |-> b + 5 * lookups]

(***************************************************************************)
(* The collaborators of solidity_render: the code generator, the template  *)
(* engine and the file system.                                             *)
(***************************************************************************)
\* codegen::solidity_codegen_with_proof: runs the verifier over the proof
\* through a selector in real mode and appends proof-specific fields; it
\* fails when the proof bytes run out.
solidity_codegen_with_proof(params, vkey, instances, proofs, tera_ctx) ==
    LET t0 == Selector_ShaRead(ShaRead_init(proofs))
        r1 == SolidityShaSelector_read_point(t0)
        r2 == SolidityShaSelector_read_scalar(r1.self)
    IN  IF r1.ret.ok /\ r2.ret.ok
        THEN [ok |-> TRUE,
              tera_ctx |-> Insert(Insert(tera_ctx, "instance_size", Len(instances)),
                                  "proof_scalar", to_str_radix10(r2.ret.val.scalar))]
        ELSE [ok |-> FALSE, tera_ctx |-> tera_ctx]

\* The integer-valued and list-valued keys of the context; every other value
\* is a decimal string.
IntKeys == {"n_advice", "lookups", "permutation_products", "degree", "evals", "instance_size"}
ListKeys == {"verify_circuit_lagrange_commitments", "target_circuit_lagrange_commitments"}

RECURSIVE JoinPairs(_)
JoinPairs(pairs) ==
    IF pairs = <<>> THEN ""
    ELSE "[" \o Head(pairs)[1] \o "," \o Head(pairs)[2] \o "]" \o JoinPairs(Tail(pairs))

\* The text a template variable renders to.
RenderValue(key, value) ==
    IF key \in IntKeys THEN to_str_radix10(value)
    ELSE IF key \in ListKeys THEN JoinPairs(value)
    ELSE value

\* Tera::render_to: the template's variables are written to the output one
\* after the other; it fails when the template is not in the set or when a
\* variable is not in the context, after writing what came before it.
render_to(tera, template_name, tera_ctx) ==
    IF tera.name # template_name THEN [ok |-> FALSE, written |-> <<>>]
    ELSE LET missing == {i \in 1..Len(tera.keys) : tera.keys[i] \notin DOMAIN tera_ctx}
             stop == IF missing = {} THEN Len(tera.keys) + 1
                     ELSE CHOOSE i \in missing : \A j \in missing : i <= j
         IN  [ok |-> missing = {},
              written |-> [i \in 1..(stop - 1) |->
                              RenderValue(tera.keys[i], tera_ctx[tera.keys[i]])]]

(***************************************************************************)
(* Inputs of the model.                                                    *)
(***************************************************************************)
Fq2(c0, c1) == [c0 |-> c0, c1 |-> c1]
G2(x, y) == [inf |-> FALSE, x |-> x, y |-> y]
G2_identity == [inf |-> TRUE, x |-> Fq2(0, 0), y |-> Fq2(0, 0)]
\* Affine G2 sample points: components of one and of two bytes, all distinct
\* within a point.
G2Samples ==
    { G2(Fq2(1, 2), Fq2(3, 4)),
      G2(Fq2(300, 7), Fq2(FqModulus - 1, 256)),
      G2(Fq2(513, 0), Fq2(0, 65000)) }

ParamsVerifier(g2, s_g2, g_lagrange) == [g2 |-> g2, s_g2 |-> s_g2, g_lagrange |-> g_lagrange]
ToyG2 == G2(Fq2(1, 2), Fq2(3, 4))
ToyParams == ParamsVerifier(ToyG2, G2(Fq2(300, 7), Fq2(FqModulus - 1, 256)),
                            << [inf |-> FALSE, x |-> 1, y |-> 2] >>)
\* SRS parameters of the export passes: two well-formed sets, and one whose
\* s_g2 is the point at infinity.
ParamsSamples ==
    { ToyParams,
      ParamsVerifier(G2(Fq2(513, 0), Fq2(0, 65000)), ToyG2,
                     << [inf |-> FALSE, x |-> 3, y |-> 5], [inf |-> FALSE, x |-> 1, y |-> 2] >>),
      ParamsVerifier(ToyG2, G2_identity, << [inf |-> FALSE, x |-> 1, y |-> 2] >>) }

VerifyingKey(n_advice, lookups, columns, degree, iq, aq, fq, commitments, pinned) ==
    [ cs |-> [ num_advice_columns |-> n_advice, lookups |-> lookups,
               permutation_columns |-> columns, degree |-> degree,
               instance_queries |-> iq, advice_queries |-> aq, fixed_queries |-> fq ],
      permutation |-> [commitments |-> commitments],
      domain |-> [quotient_poly_degree |-> IF degree >= 1 THEN degree - 1 ELSE 0],
      pinned |-> pinned ]

\* The Debug rendering of the pinned verifying key, as bytes.
PinnedSamples == { <<1, 2>>, <<2, 1, 0>> }
ToyPinned == <<1, 2>>
\* 1 advice column, 0 lookups, 1 permutation column, degree bound 5.
ToyVKey(pinned) == VerifyingKey(1, 0, 1, 5, 1, 1, 1, 1, pinned)

InstancesSamples == { <<1>>, <<2, 3>> }
\* A proof too short for the code generator, and one long enough.
ProofOfLen(n) == [i \in 1..n |-> i % (MaxByte + 1)]
ProofsSamples == { ProofOfLen(ReprLen), ProofOfLen(2 * ReprLen + 1) }

TemplateName == "AggregatorConfig.sol.tera"
Templates(parse_ok, name, keys) == [parse_ok |-> parse_ok, name |-> name, keys |-> keys]
\* Template sets at path_in: a good one, one that refers to a variable nobody
\* inserts, one that does not parse, one without the requested template.
TemplateSamples ==
    { Templates(TRUE, TemplateName,
                <<"target_circuit_s_g2_x0", "init_scalar", "evals", "proof_scalar">>),
      Templates(TRUE, TemplateName, <<"init_scalar", "undefined_variable", "evals">>),
      Templates(FALSE, TemplateName, <<>>),
      Templates(TRUE, "AggregatorVerifier.sol.tera", <<"init_scalar">>) }

Args(tera_src, target, verify, vkey, instances, proofs) ==
    [ path_in |-> tera_src, template_name |-> TemplateName,
      target_circuit_params |-> target, verify_circuit_params |-> verify,
      vkey |-> vkey, instances |-> instances, proofs |-> proofs ]

\* The destination file: absent, or holding an earlier output.
NoFile == [exists |-> FALSE, content |-> <<>>]
OldFile == [exists |-> TRUE, content |-> <<"old">>]

(***************************************************************************)
(* State of the transcript runs.                                           *)
(***************************************************************************)
VARIABLES
    proof,        \* the proof bytes the real transcripts were constructed over
    constructed,  \* the variant the selector was constructed with
    sel,          \* the SolidityShaSelector
    direct,       \* a ShaRead over the same bytes, driven without the selector
    null_t,       \* a SolidityShaRead driven on its own
    sret,         \* what the selector's last call returned
    dret,         \* what the direct transcript's last call returned
    nret,         \* what the null transcript's last call returned
    calls         \* calls made so far, on any of the transcripts

varsT == <<proof, constructed, sel, direct, null_t, sret, dret, nret, calls>>

(***************************************************************************)
(* State of an export pass (solidity_render).                              *)
(***************************************************************************)
VARIABLES
    args,       \* the arguments of solidity_render (path_in holds the template set)
    env,        \* the build and the file system's answer: overflow_checks, creatable
    pc,         \* the statement the pass is at, "done" or "panicked"
    g2_calls,   \* insert_g2 calls made so far
    tera_ctx,   \* the render context
    locals,     \* the locals lookups and n_permutation_product
    fs,         \* the file at path_out
    fs0,        \* the file at path_out when the pass started
    log,        \* the collaborators invoked so far, with the context's keys then
    seed_cur,   \* the seed the latest pass computed, with the inputs it ran on
    seed_prev,  \* the seed the pass before that computed, with its inputs
    wrapped,    \* the statements of the pass whose unsigned subtraction wrapped around
    panic_at    \* the statement that panicked, or "none"

varsR == <<args, env, pc, g2_calls, tera_ctx, locals, fs, fs0, log, seed_cur, seed_prev,
          wrapped, panic_at>>
vars == <<varsT, varsR>>

\* What a call returned: the operation, whether it succeeded, and the value.
NoCall == [op |-> "none", ok |-> TRUE, val |-> UnitVal]
Call(op, ret) == [op |-> op, ok |-> ret.ok, val |-> ret.val]

EmptyCtx == [key \in {} |-> ""]
NoLocals == [lookups |-> 0, n_permutation_product |-> 0]
GoodTemplates ==
    Templates(TRUE, TemplateName,
              <<"target_circuit_s_g2_x0", "init_scalar", "evals", "proof_scalar">>)
GoodEnv == [overflow_checks |-> TRUE, creatable |-> TRUE]

\* A computed seed and the inputs of the pass that computed it.
NoSeed == [computed |-> FALSE]
SeedOf(a) ==
    [ computed |-> TRUE, seed |-> init_scalar(a), instances |-> a.instances,
      proofs |-> a.proofs, target_circuit_params |-> a.target_circuit_params ]

\* The state in which solidity_render is entered with arguments a.
Entered(a, e, file) ==
    /\ args = a /\ env = e /\ fs = file /\ fs0 = file
    /\ pc = "tera_new" /\ g2_calls = 0 /\ tera_ctx = EmptyCtx /\ locals = NoLocals
    /\ log = <<>> /\ seed_cur = NoSeed /\ seed_prev = NoSeed
    /\ wrapped = {} /\ panic_at = "none"

\* No transcript run: the transcript variables rest.
IdleT ==
    /\ proof = <<>> /\ constructed = "SolidityShaRead"
    /\ sel = Selector_SolidityShaRead(SolidityShaRead_init)
    /\ direct = ShaRead_init(<<>>) /\ null_t = SolidityShaRead_init
    /\ sret = NoCall /\ dret = NoCall /\ nret = NoCall /\ calls = MaxCalls

\* No export pass: the pass variables rest.
IdleR ==
    /\ Entered(Args(GoodTemplates, ToyParams, ToyParams, ToyVKey(ToyPinned),
                    <<1>>, ProofOfLen(2 * ReprLen + 1)), GoodEnv, NoFile)

\* Passes that differ in templates, SRS parameters, pinned description,
\* instances, proof, creatability of the destination and its earlier content.
PassArgs ==
    { Args(t, tp, ToyParams, ToyVKey(p), i, pr) :
        t \in TemplateSamples, tp \in ParamsSamples,
        p \in PinnedSamples, i \in InstancesSamples, pr \in ProofsSamples }

Init ==
    /\ IdleT
    /\ \E a \in PassArgs, c \in BOOLEAN, file \in {NoFile, OldFile} :
          Entered(a, [overflow_checks |-> TRUE, creatable |-> c], file)

\* Verifying keys of every structure within the bounds.
StructVKeys ==
    { VerifyingKey(1, l, n, d, iq, aq, fq, c, ToyPinned) :
        l \in 0..MaxLookups, n \in 0..MaxPermColumns, d \in 0..MaxDegree,
        iq \in {0, MaxInstanceQueries}, aq \in {0, MaxAdviceQueries},
        fq \in {0, MaxFixedQueries}, c \in {0, MaxPermCommitments} }

InitStruct ==
    /\ IdleT
    /\ \E vk \in StructVKeys, oc \in BOOLEAN :
          Entered(Args(GoodTemplates, ToyParams, ToyParams, vk, <<1>>,
                       ProofOfLen(2 * ReprLen + 1)),
                  [overflow_checks |-> oc, creatable |-> TRUE], NoFile)

\* SRS parameters whose G2 points range over the affine samples.
G2Params == { ParamsVerifier(g, s, ToyParams.g_lagrange) : g \in G2Samples, s \in G2Samples }

InitG2 ==
    /\ IdleT
    /\ \E tp \in G2Params, vp \in G2Params :
          Entered(Args(GoodTemplates, tp, vp, ToyVKey(ToyPinned), <<1>>,
                       ProofOfLen(2 * ReprLen + 1)), GoodEnv, NoFile)

(***************************************************************************)
(* Transcript runs: calls on a selector (replayed on a ShaRead driven       *)
(* directly) and on a null transcript.                                     *)
(***************************************************************************)
InitT ==
    /\ IdleR
    /\ proof \in ByteSeqs(MaxProofLen)
    /\ constructed \in {"ShaRead", "SolidityShaRead"}
    /\ sel = IF constructed = "ShaRead"
             THEN Selector_ShaRead(ShaRead_init(proof))
             ELSE Selector_SolidityShaRead(SolidityShaRead_init)
    /\ direct = ShaRead_init(proof)
    /\ null_t = SolidityShaRead_init
    /\ sret = NoCall /\ dret = NoCall /\ nret = NoCall
    /\ calls = 0

\* One call on the selector, replayed on the direct transcript.
SelStep(op, r, d) ==
    /\ calls < MaxCalls
    /\ sel' = r.self /\ sret' = Call(op, r.ret)
    /\ direct' = d.self /\ dret' = Call(op, d.ret)
    /\ calls' = calls + 1
    /\ UNCHANGED <<proof, constructed, null_t, nret>>
    /\ UNCHANGED varsR

S_read_point ==
    SelStep("read_point", SolidityShaSelector_read_point(sel), ShaRead_read_point(direct))

S_read_scalar ==
    SelStep("read_scalar", SolidityShaSelector_read_scalar(sel), ShaRead_read_scalar(direct))

S_squeeze_challenge ==
    SelStep("squeeze_challenge", SolidityShaSelector_squeeze_challenge(sel),
            ShaRead_squeeze_challenge(direct))

S_common_point ==
    \E point \in G1Points :
        SelStep("common_point", SolidityShaSelector_common_point(sel, point),
                ShaRead_common_point(direct, point))

S_common_scalar ==
    \E scalar \in ScalarSamples :
        SelStep("common_scalar", SolidityShaSelector_common_scalar(sel, scalar),
                ShaRead_common_scalar(direct, scalar))

\* One call on the null transcript.
NullStep(op, r) ==
    /\ calls < MaxCalls
    /\ null_t' = r.self /\ nret' = Call(op, r.ret)
    /\ calls' = calls + 1
    /\ UNCHANGED <<proof, constructed, sel, direct, sret, dret>>
    /\ UNCHANGED varsR

N_read_point == NullStep("read_point", SolidityShaRead_read_point(null_t))
N_read_scalar == NullStep("read_scalar", SolidityShaRead_read_scalar(null_t))
N_squeeze_challenge == NullStep("squeeze_challenge", SolidityShaRead_squeeze_challenge(null_t))
N_common_point ==
    \E point \in G1Points : NullStep("common_point", SolidityShaRead_common_point(null_t, point))
N_common_scalar ==
    \E scalar \in ScalarSamples :
        NullStep("common_scalar", SolidityShaRead_common_scalar(null_t, scalar))

NextT ==
    \/ S_read_point \/ S_read_scalar \/ S_squeeze_challenge
    \/ S_common_point \/ S_common_scalar
    \/ N_read_point \/ N_read_scalar \/ N_squeeze_challenge
    \/ N_common_point \/ N_common_scalar

(***************************************************************************)
(* The export pass, statement by statement.                                *)
(***************************************************************************)
\* A panic (unwrap, expect, overflow check, chunks(0)) ends the pass.
Panic ==
    /\ pc' = "panicked" /\ panic_at' = pc

\* let tera = Tera::new(path_in).unwrap(); let mut tera_ctx = Context::new();
TeraNew ==
    /\ pc = "tera_new"
    /\ IF args.path_in.parse_ok
       THEN pc' = "insert_g2" /\ UNCHANGED panic_at
       ELSE Panic
    /\ tera_ctx' = EmptyCtx
    /\ UNCHANGED <<args, env, g2_calls, locals, fs, fs0, log, seed_cur, seed_prev, wrapped>>
    /\ UNCHANGED varsT

\* One of the four insert_g2 calls; coordinates().unwrap() panics at infinity.
InsertG2 ==
    /\ pc = "insert_g2"
    /\ LET call == G2Calls(args.target_circuit_params, args.verify_circuit_params)[g2_calls + 1]
       IN  IF call.g2.inf
           THEN Panic /\ UNCHANGED <<tera_ctx, g2_calls>>
           ELSE /\ tera_ctx' = insert_g2(tera_ctx, call.prefix, call.g2)
                /\ g2_calls' = g2_calls + 1
                /\ pc' = IF g2_calls + 1 = 4 THEN "lagrange_verify" ELSE pc
                /\ UNCHANGED panic_at
    /\ UNCHANGED <<args, env, locals, fs, fs0, log, seed_cur, seed_prev, wrapped>>
    /\ UNCHANGED varsT

\* A g_lagrange list mapped to decimal pairs and inserted under key.
InsertLagrange(at, next, key, g_lagrange) ==
    /\ pc = at
    /\ IF \E i \in 1..Len(g_lagrange) : g_lagrange[i].inf
       THEN Panic /\ UNCHANGED tera_ctx
       ELSE /\ tera_ctx' = Insert(tera_ctx, key, g_lagrange_pairs(g_lagrange))
            /\ pc' = next /\ UNCHANGED panic_at
    /\ UNCHANGED <<args, env, g2_calls, locals, fs, fs0, log, seed_cur, seed_prev, wrapped>>
    /\ UNCHANGED varsT

LagrangeVerify ==
    InsertLagrange("lagrange_verify", "lagrange_target", "verify_circuit_lagrange_commitments",
                   args.verify_circuit_params.g_lagrange)

LagrangeTarget ==
    InsertLagrange("lagrange_target", "init_scalar", "target_circuit_lagrange_commitments",
                   args.target_circuit_params.g_lagrange)

\* The seed is hashed from the pinned verifying key and inserted.
InitScalar ==
    /\ pc = "init_scalar"
    /\ tera_ctx' = insert_init_scalar(tera_ctx, args)
    /\ seed_cur' = SeedOf(args) /\ seed_prev' = seed_cur
    /\ pc' = "structure"
    /\ UNCHANGED <<args, env, g2_calls, locals, fs, fs0, log, wrapped, panic_at>>
    /\ UNCHANGED varsT

\* n_advice and lookups.
Structure ==
    /\ pc = "structure"
    /\ LET lookups == args.vkey.cs.lookups
       IN  /\ tera_ctx' = Insert(Insert(tera_ctx, "n_advice", args.vkey.cs.num_advice_columns),
                                 "lookups", lookups)
           /\ locals' = [locals EXCEPT !.lookups = lookups]
    /\ pc' = "permutation_products"
    /\ UNCHANGED <<args, env, g2_calls, fs, fs0, log, seed_cur, seed_prev, wrapped, panic_at>>
    /\ UNCHANGED varsT

\* columns.chunks(degree - 2).len(): the subtraction panics under overflow
\* checks and wraps without them; chunks panics on a chunk size of 0.
PermutationProducts ==
    /\ pc = "permutation_products"
    /\ LET size == chunk_size(args.vkey)
       IN  IF (size < 0 /\ env.overflow_checks) \/ size = 0
           THEN Panic /\ UNCHANGED <<tera_ctx, locals, wrapped>>
           ELSE LET n_permutation_product == chunks_len(args.vkey.cs.permutation_columns, size)
                IN  /\ tera_ctx' = Insert(tera_ctx, "permutation_products", n_permutation_product)
                    /\ locals' = [locals EXCEPT !.n_permutation_product = n_permutation_product]
                    /\ wrapped' = IF size < 0 THEN wrapped \cup {pc} ELSE wrapped
                    /\ pc' = "degree" /\ UNCHANGED panic_at
    /\ UNCHANGED <<args, env, g2_calls, fs, fs0, log, seed_cur, seed_prev>>
    /\ UNCHANGED varsT

Degree ==
    /\ pc = "degree"
    /\ tera_ctx' = Insert(tera_ctx, "degree", args.vkey.domain.quotient_poly_degree)
    /\ pc' = "evals"
    /\ UNCHANGED <<args, env, g2_calls, locals, fs, fs0, log, seed_cur, seed_prev, wrapped, panic_at>>
    /\ UNCHANGED varsT

Evals ==
    /\ pc = "evals"
    /\ LET e == evals(args.vkey, locals.n_permutation_product, locals.lookups)
       IN  IF e.underflow /\ env.overflow_checks
           THEN Panic /\ UNCHANGED <<tera_ctx, wrapped>>
           ELSE /\ tera_ctx' = Insert(tera_ctx, "evals", e.val)
                /\ wrapped' = IF e.underflow THEN wrapped \cup {pc} ELSE wrapped
                /\ pc' = "codegen" /\ UNCHANGED panic_at
    /\ UNCHANGED <<args, env, g2_calls, locals, fs, fs0, log, seed_cur, seed_prev>>
    /\ UNCHANGED varsT

\* The code generator is handed the context as it is now.
Codegen ==
    /\ pc = "codegen"
    /\ log' = Append(log, [fn |-> "solidity_codegen_with_proof", keys |-> DOMAIN tera_ctx])
    /\ LET r == solidity_codegen_with_proof(args.verify_circuit_params, args.vkey,
                                            args.instances, args.proofs, tera_ctx)
       IN  /\ tera_ctx' = r.tera_ctx
           /\ IF r.ok THEN pc' = "file_create" /\ UNCHANGED panic_at ELSE Panic
    /\ UNCHANGED <<args, env, g2_calls, locals, fs, fs0, seed_cur, seed_prev, wrapped>>
    /\ UNCHANGED varsT

\* let fd = File::create(path_out).unwrap(): the file is created or truncated.
FileCreate ==
    /\ pc = "file_create"
    /\ IF env.creatable
       THEN /\ fs' = [exists |-> TRUE, content |-> <<>>]
            /\ pc' = "render_to" /\ UNCHANGED panic_at
       ELSE Panic /\ UNCHANGED fs
    /\ UNCHANGED <<args, env, g2_calls, tera_ctx, locals, fs0, log, seed_cur, seed_prev, wrapped>>
    /\ UNCHANGED varsT

\* tera.render_to(template_name, &tera_ctx, fd).expect(..)
RenderTo ==
    /\ pc = "render_to"
    /\ log' = Append(log, [fn |-> "render_to", keys |-> DOMAIN tera_ctx])
    /\ LET r == render_to(args.path_in, args.template_name, tera_ctx)
       IN  /\ fs' = [exists |-> TRUE, content |-> r.written]
           /\ IF r.ok THEN pc' = "done" /\ UNCHANGED panic_at ELSE Panic
    /\ UNCHANGED <<args, env, g2_calls, tera_ctx, locals, fs0, seed_cur, seed_prev, wrapped>>
    /\ UNCHANGED varsT

\* The caller runs another pass for the same verifying key and templates,
\* with other instances, proof bytes or SRS parameters.
NewPass ==
    /\ pc \in {"done", "panicked"}
    /\ \E a \in PassArgs :
          /\ a.vkey = args.vkey /\ a.path_in = args.path_in
          /\ args' = a
    /\ pc' = "tera_new" /\ g2_calls' = 0 /\ tera_ctx' = EmptyCtx /\ locals' = NoLocals
    /\ log' = <<>> /\ wrapped' = {} /\ panic_at' = "none"
    /\ fs0' = fs
    /\ UNCHANGED <<env, fs, seed_cur, seed_prev>>
    /\ UNCHANGED varsT

PassNext ==
    \/ TeraNew \/ InsertG2 \/ LagrangeVerify \/ LagrangeTarget \/ InitScalar
    \/ Structure \/ PermutationProducts \/ Degree \/ Evals
    \/ Codegen \/ FileCreate \/ RenderTo

Next == PassNext \/ NewPass

\* Export passes, one after the other.
Spec == Init /\ [][Next]_vars
\* One export pass for every structure of verifying key.
SpecStruct == InitStruct /\ [][PassNext]_vars
\* One export pass for every choice of G2 points.
SpecG2 == InitG2 /\ [][PassNext]_vars
\* Transcript runs.
SpecTranscript == InitT /\ [][NextT]_vars

(***************************************************************************)
(* Properties.                                                             *)
(***************************************************************************)
ZeroChallenge == [challenge |-> [i \in 1..32 |-> 0]]

\* C1: every call on the null transcript succeeds and returns the fixed value
\* of its operation (read_point the identity, read_scalar the root of unity,
\* squeeze_challenge 32 zero bytes, common_point and common_scalar nothing),
\* and leaves the transcript as constructed, whatever was called before.
C1_NullTranscriptTotal ==
    /\ null_t = SolidityShaRead_init
    /\ nret.ok
    /\ nret.op = "read_point" => nret.val = PointVal(C_identity)
    /\ nret.op = "read_scalar" => nret.val = ScalarVal(Scalar_root_of_unity)
    /\ nret.op = "squeeze_challenge" => nret.val = ZeroChallenge
    /\ nret.op \in {"common_point", "common_scalar"} => nret.val = UnitVal

\* Every call of the run was made on the null transcript, the last one a
\* squeeze_challenge.
C1_Witness ==
    /\ calls = MaxCalls /\ sret.op = "none" /\ nret.op = "squeeze_challenge"

\* C2: a selector constructed in real mode returns, call after call, what a
\* ShaRead over the same bytes returns when driven directly with the same
\* calls (value or error), and its payload is in that transcript's state.
C2_SelectorForwards ==
    constructed = "ShaRead" => (sret = dret /\ sel = Selector_ShaRead(direct))

\* A real-mode selector squeezed a challenge after proof bytes were read.
C2_Witness ==
    /\ constructed = "ShaRead" /\ sret.op = "squeeze_challenge"
    /\ Len(direct.reader) < Len(proof)

\* C10: the selector's variant is the one it was constructed with after any
\* calls, failed ones included; a null-mode selector holds the stateless null
\* transcript (no proof cursor to advance) and none of its calls fails.
C10_ModeFixed ==
    /\ sel.tag = constructed
    /\ constructed = "SolidityShaRead" => (sel.hasher = SolidityShaRead_init /\ sret.ok)

\* A real-mode selector whose last call, not its first, returned an error.
C10_Witness ==
    /\ constructed = "ShaRead" /\ ~sret.ok /\ calls >= 2 /\ sel.tag = "ShaRead"

\* C3 (as claimed): a pass that fails leaves the destination file as it was
\* when the pass started, neither created nor truncated nor partly written.
C3_AllOrNothing ==
    pc = "panicked" => fs = fs0

\* The keys that are in the context before the code generator runs.
SeededKeys == {"init_scalar", "n_advice", "lookups", "permutation_products", "degree", "evals"}

\* C4: whenever the code generator is invoked the context holds init_scalar
\* and the structural counts; the renderer is invoked only after the code
\* generator was invoked and returned its fields.
C4_SeedBeforeCodegen ==
    /\ \A i \in 1..Len(log) :
          /\ log[i].fn = "solidity_codegen_with_proof" => SeededKeys \subseteq log[i].keys
          /\ log[i].fn = "render_to" =>
                /\ \E j \in 1..(i - 1) : log[j].fn = "solidity_codegen_with_proof"
                /\ {"proof_scalar", "instance_size"} \subseteq log[i].keys
    /\ pc \in {"file_create", "render_to", "done"} =>
          \E i \in 1..Len(log) : log[i].fn = "solidity_codegen_with_proof"

\* A pass ran to completion: code generator, then renderer.
C4_Witness ==
    /\ pc = "done" /\ Len(log) = 2 /\ log[2].fn = "render_to"

\* C9: the seeds of two passes for the same verifying key are equal, whatever
\* the instances, the proof bytes and the SRS parameters of each pass; the
\* context holds the seed under init_scalar.
C9_SeedDeterministic ==
    /\ (seed_cur.computed /\ seed_prev.computed) => seed_cur.seed = seed_prev.seed
    /\ (seed_cur.computed /\ pc \notin {"tera_new", "insert_g2", "lagrange_verify",
                                        "lagrange_target", "init_scalar", "panicked"})
          => tera_ctx["init_scalar"] = seed_cur.seed

\* Two passes computed a seed from different instances, proofs and SRS.
C9_Witness ==
    /\ seed_cur.computed /\ seed_prev.computed
    /\ seed_cur.instances # seed_prev.instances
    /\ seed_cur.proofs # seed_prev.proofs
    /\ seed_cur.target_circuit_params # seed_prev.target_circuit_params

\* The integer the evals formula denotes for the counts of the pass.
EvalsFormula ==
    args.vkey.cs.instance_queries + args.vkey.cs.advice_queries
      + args.vkey.cs.fixed_queries + 1 + args.vkey.permutation.commitments
      + 3 * tera_ctx["permutation_products"] - 1 + 5 * args.vkey.cs.lookups

\* C5: the evals value in the context is the integer value of the formula,
\* with permutation_products the chunk count of the same pass; the evals
\* statement neither panics nor wraps around.
C5_EvalsFormula ==
    /\ panic_at # "evals"
    /\ "evals" \notin wrapped
    /\ "evals" \in DOMAIN tera_ctx => (tera_ctx["evals"] = EvalsFormula /\ tera_ctx["evals"] >= 0)
    /\ pc \in {"codegen", "file_create", "render_to", "done"} => "evals" \in DOMAIN tera_ctx

\* All counts are zero: the sum is 1 when the 1 is subtracted.
C5_Witness ==
    /\ "evals" \in DOMAIN tera_ctx /\ tera_ctx["evals"] = 0
    /\ tera_ctx["permutation_products"] = 0 /\ args.vkey.cs.lookups = 0

\* The verifying key of the structural-formula fixture, once evals is there.
Fixture ==
    /\ "evals" \in DOMAIN tera_ctx
    /\ args.vkey.cs.lookups = 3 /\ tera_ctx["permutation_products"] = 2
    /\ args.vkey.cs.instance_queries = 1 /\ args.vkey.cs.advice_queries = 5
    /\ args.vkey.cs.fixed_queries = 2 /\ args.vkey.permutation.commitments = 2

\* C6 (as claimed): for the fixture the evaluation count is 32.
C6_FixtureIs32 == Fixture => tera_ctx["evals"] = 32

\* C6 (amended): for the fixture the evaluation count is 31.
C6_FixtureIs31 == Fixture => tera_ctx["evals"] = 31

C6_Witness == Fixture

\* The least k with k * size >= n: the ceiling of n / size, for size >= 1.
CeilDiv(n, size) ==
    CHOOSE k \in 0..n : k * size >= n /\ \A j \in 0..n : j * size >= n => k <= j

\* C7 (as claimed): the permutation_products statement yields a value for
\* every degree bound, and the value is the ceiling of n / (d - 2).
C7_YieldsForEveryDegree ==
    /\ panic_at # "permutation_products"
    /\ ("permutation_products" \in DOMAIN tera_ctx /\ args.vkey.cs.degree >= 3) =>
          tera_ctx["permutation_products"]
             = CeilDiv(args.vkey.cs.permutation_columns, args.vkey.cs.degree - 2)

\* C7 (amended): for d >= 3 the statement yields the ceiling of n / (d - 2);
\* for d = 2 it panics (chunk size 0); for d < 2 the subtraction underflows:
\* a panic under overflow checks, otherwise a wrapped chunk size and a count
\* of 0 for no columns and 1 for any.
C7_PermutationProducts ==
    LET d == args.vkey.cs.degree
        n == args.vkey.cs.permutation_columns
        past == pc \in {"degree", "evals", "codegen", "file_create", "render_to", "done"}
        here == "permutation_products" \in DOMAIN tera_ctx
    IN  /\ past => here
        /\ d >= 3 => /\ panic_at # "permutation_products"
                     /\ here => tera_ctx["permutation_products"] = CeilDiv(n, d - 2)
        /\ d = 2 => ~here
        /\ (d < 2 /\ env.overflow_checks) => ~here
        /\ (d < 2 /\ ~env.overflow_checks /\ here) =>
              /\ "permutation_products" \in wrapped
              /\ tera_ctx["permutation_products"] = IF n = 0 THEN 0 ELSE 1

\* Three columns in chunks of two: a ceiling that rounds up.
C7_Witness ==
    /\ "permutation_products" \in DOMAIN tera_ctx
    /\ args.vkey.cs.permutation_columns = 3 /\ args.vkey.cs.degree = 4
    /\ tera_ctx["permutation_products"] = 2

\* The decimal string of the little-endian integer of bytes[from..to] (1-based,
\* inclusive) of the serialization of an Fq2 element.
HalfOf(f, from, to) == to_str_radix10(FromBytesLE(SubSeq(Fq2_write(f), from, to)))

\* The points the four prefixes are about.
G2Of(prefix) ==
    CASE prefix = "target_circuit_s_g2" -> args.target_circuit_params.s_g2
      [] prefix = "target_circuit_n_g2" -> G2_neg(args.target_circuit_params.g2)
      [] prefix = "verify_circuit_s_g2" -> args.verify_circuit_params.s_g2
      [] prefix = "verify_circuit_n_g2" -> G2_neg(args.verify_circuit_params.g2)
G2Prefixes ==
    <<"target_circuit_s_g2", "target_circuit_n_g2", "verify_circuit_s_g2", "verify_circuit_n_g2">>

\* C8: for each prefix inserted so far, x0 is the integer of bytes 32..64 of
\* the serialized X coordinate and x1 that of bytes 0..32, y0 and y1 likewise
\* for Y; the n_g2 prefixes are about the negated generators.
C8_HalfSwap ==
    /\ pc # "insert_g2" /\ pc # "tera_new" /\ pc # "panicked" => g2_calls = 4
    /\ \A i \in 1..g2_calls :
          LET prefix == G2Prefixes[i]
              g2 == G2Of(prefix)
          IN  /\ tera_ctx[prefix \o "_x0"] = HalfOf(g2.x, 33, 64)
              /\ tera_ctx[prefix \o "_x1"] = HalfOf(g2.x, 1, 32)
              /\ tera_ctx[prefix \o "_y0"] = HalfOf(g2.y, 33, 64)
              /\ tera_ctx[prefix \o "_y1"] = HalfOf(g2.y, 1, 32)

\* All four points are in, the halves of a coordinate differ, and negating
\* the generator changed its Y.
C8_Witness ==
    /\ g2_calls = 4
    /\ tera_ctx["target_circuit_s_g2_x0"] # tera_ctx["target_circuit_s_g2_x1"]
    /\ tera_ctx["verify_circuit_n_g2_y0"] # HalfOf(args.verify_circuit_params.g2.y, 33, 64)
    /\ tera_ctx["verify_circuit_n_g2_y1"] # HalfOf(args.verify_circuit_params.g2.y, 1, 32)

====
